---- MODULE Spec2Model ----
(***************************************************************************)
(* A model of fetch_stargazers.py, the GitHub stargazer prospector: the    *)
(* sequential pipeline main() -> fetch_stargazers -> enrich_stargazers ->  *)
(* dedupe_and_score -> save_local -> send_to_clay, with every HTTP request *)
(* and every sleep as one step, and the pure functions as operators.       *)
(*                                                                         *)
(* Conventions.  A Python str is a sequence of one-character strings, so   *)
(* that startswith/endswith/slicing are computed.  A login is a natural    *)
(* number.  A Python dict is a record (a function on its keys); a key the  *)
(* code leaves out is left out of the record's domain.  The profile keys   *)
(* the code copies and never reads (name, bio, location, blog, twitter,    *)
(* public_repos, user_url) are not carried.                                *)
(***************************************************************************)
EXTENDS Integers, Sequences, FiniteSets, TLC

VARIABLES
    pc,              \* position of the single thread of control
    arg,             \* argument of the pure function under call (SpecClean, SpecDedupe)
    ret,             \* its return value
    webhook_url,     \* CLAY_WEBHOOK_URL is set (line 21)
    repo_idx,        \* main: index of the repository being fetched (line 340)
    all_stargazers,  \* main: all_stargazers (line 339)
    repo,            \* fetch_stargazers: repo
    max_stargazers,  \* fetch_stargazers: max_stargazers
    stargazers,      \* fetch_stargazers: stargazers (line 60)
    last_page,       \* fetch_stargazers: last_page (line 75)
    page,            \* fetch_stargazers: page (line 92)
    pages_requested, \* the pages fetch_stargazers asked for, first attempts, in order
    recent,          \* fetch_stargazers: its return value (line 138)
    response,        \* the response of the request in hand
    i,               \* enrich_stargazers: loop index, from 1 (line 204)
    details,         \* enrich_stargazers: details (line 209)
    enriched,        \* enrich_stargazers: enriched (line 199)
    leads,           \* main: leads (line 355)
    snapshot,        \* the content of leads.json, NoFile before save_local
    posts,           \* the payloads POSTed to the webhook, in order
    io,              \* the last two network/sleep events of the process
    profile_gets,    \* per login: first-attempt GETs of /users/<login>
    orgs_gets,       \* per login: GETs of /users/<login>/orgs
    err_budget,      \* non-200 API responses the environment may still give
    star_budget      \* stargazer entries the environment may still serve

vars == <<pc, arg, ret, webhook_url, repo_idx, all_stargazers, repo,
          max_stargazers, stargazers, last_page, page, pages_requested,
          recent, response, i, details, enriched, leads, snapshot, posts,
          io, profile_gets, orgs_gets, err_budget, star_budget>>

(***************************************************************************)
(* Bounds of the model.                                                    *)
(***************************************************************************)
MaxUsers == 2        \* logins 1..MaxUsers appear in short pages
MaxLastPage == 6     \* the "last" link names a page in 1..MaxLastPage
MaxErrors == 2       \* non-200 API responses in one run of main
MaxStars == 2        \* stargazer entries served in one run of main
MaxPageLen == 2      \* entries of a short page
MaxFullPages == 2    \* full pages (per_page entries) served to one fetch_stargazers call
MaxLeads == 3        \* length of dedupe_and_score's input (SpecDedupe)
MaxSuffixes == 2     \* suffixes appended to a company name (SpecClean)

(***************************************************************************)
(* Program constants.                                                      *)
(***************************************************************************)
REPOS == <<"amplitude/Amplitude-JavaScript", "mixpanel/mixpanel-js",
           "segmentio/analytics.js">>
REQUEST_DELAY == 500     \* milliseconds (0.5 s)
COOLDOWN == 60000        \* milliseconds (time.sleep(60))
per_page == 100
PAGE_CAP == 5
max_per_repo == 200

None == "None"           \* Python's None where the other values are strings
NoneStr == <<"None">>    \* Python's None where the other values are strs (sequences)
NoFile == [exists |-> FALSE, content |-> <<>>]
File(content) == [exists |-> TRUE, content |-> content]

Usernames == 1..MaxUsers

(***************************************************************************)
(* Python str operations on sequences of characters.                       *)
(***************************************************************************)
startswith(s, p) ==
    /\ Len(p) <= Len(s)
    /\ SubSeq(s, 1, Len(p)) = p

endswith(s, p) ==
    /\ Len(p) <= Len(s)
    /\ SubSeq(s, Len(s) - Len(p) + 1, Len(s)) = p

RECURSIVE lstrip(_)
lstrip(s) == IF s # <<>> /\ Head(s) = " " THEN lstrip(Tail(s)) ELSE s

RECURSIVE rstrip(_)
rstrip(s) ==
    IF s # <<>> /\ s[Len(s)] = " " THEN rstrip(SubSeq(s, 1, Len(s) - 1)) ELSE s

strip(s) == rstrip(lstrip(s))

\* s[:-n] for n >= 1
DropLast(s, n) == SubSeq(s, 1, Len(s) - n)

(***************************************************************************)
(* clean_company_name (lines 179-194).                                     *)
(***************************************************************************)
SUFFIXES ==
    << <<",", " ", "I", "n", "c", ".">>,
       <<",", " ", "I", "n", "c">>,
       <<" ", "I", "n", "c", ".">>,
       <<" ", "I", "n", "c">>,
       <<" ", "L", "L", "C">>,
       <<" ", "L", "t", "d">>,
       <<" ", "L", "t", "d", ".">> >>

\* The loop of lines 190-192 from suffix k on, if it stopped at the first match.
RECURSIVE ScanSuffixesBreak(_, _, _)
ScanSuffixesBreak(company, k, removed) ==
    IF k > Len(SUFFIXES) THEN [company |-> company, removed |-> removed]
    ELSE IF endswith(company, SUFFIXES[k])
         THEN [company |-> DropLast(company, Len(SUFFIXES[k])),
               removed |-> Append(removed, k)]
         ELSE ScanSuffixesBreak(company, k + 1, removed)

\* The loop of lines 190-192 from suffix k on: company after it, and the
\* indices of the suffixes it removed, in the order of removal.
RECURSIVE ScanSuffixes(_, _, _)
ScanSuffixes(company, k, removed) ==
    IF k > Len(SUFFIXES) THEN [company |-> company, removed |-> removed]
    ELSE IF endswith(company, SUFFIXES[k])
         THEN ScanSuffixes(DropLast(company, Len(SUFFIXES[k])), k + 1,
                           Append(removed, k))
         ELSE ScanSuffixes(company, k + 1, removed)

\* company after lines 185-187: stripped, one leading "@" removed.
StripPrefix(company) ==
    LET c == strip(company)
    IN  IF startswith(c, <<"@">>) THEN Tail(c) ELSE c

clean_company_name(company) ==
    IF company = NoneStr \/ company = <<>> THEN <<>>
    ELSE strip(ScanSuffixes(StripPrefix(company), 1, <<>>).company)

\* The suffixes one call removes (indices into SUFFIXES, in order of removal).
removed_suffixes(company) ==
    IF company = NoneStr \/ company = <<>> THEN <<>>
    ELSE ScanSuffixes(StripPrefix(company), 1, <<>>).removed

(***************************************************************************)
(* Dicts.                                                                  *)
(***************************************************************************)
\* d.get(key, default)
Get(d, key, default) == IF key \in DOMAIN d THEN d[key] ELSE default

\* {**a, **b}: the keys of both, b's value where both have the key
Merge(a, b) == b @@ a

\* The empty dict: fetch_user_details's return on a non-200 status (line 152).
EmptyDict == [k \in {} |-> None]

(***************************************************************************)
(* dedupe_and_score (lines 231-283).  by_username, an insertion-ordered    *)
(* dict, is the sequence of its values in insertion order.                 *)
(***************************************************************************)
\* The position in by_username of the lead of this username, 0 if there is none.
IndexOfUser(by_username, username) ==
    IF \E k \in 1..Len(by_username) : by_username[k].username = username
    THEN CHOOSE k \in 1..Len(by_username) : by_username[k].username = username
    ELSE 0

Contains(seq, x) == \E k \in 1..Len(seq) : seq[k] = x

\* Lines 245-247 with the membership test left out.
add_repo_always(existing, lead) ==
    [existing EXCEPT !.repos_starred = Append(@, lead.repo)]

\* Lines 245-247: a later star event of a known username.
add_repo(existing, lead) ==
    IF ~Contains(existing.repos_starred, lead.repo)
    THEN [existing EXCEPT !.repos_starred = Append(@, lead.repo)]
    ELSE existing

\* Lines 237-247: the fold of the input into by_username.
RECURSIVE dedupe(_, _)
dedupe(input, by_username) ==
    IF input = <<>> THEN by_username
    ELSE LET lead == Head(input)
             k == IndexOfUser(by_username, lead.username)
         IN  IF k = 0
             THEN dedupe(Tail(input),
                         Append(by_username,
                                Merge(lead, [repos_starred |-> <<lead.repo>>])))
             ELSE dedupe(Tail(input),
                         [by_username EXCEPT ![k] = add_repo(@, lead)])

\* Lines 252-275 with the follower thresholds read as >=.
score_of_ge(lead) ==
    LET s1 == IF Get(lead, "company_clean", <<>>) # <<>> THEN 3 ELSE 0
        s2 == IF Get(lead, "org_count", 0) > 0 THEN s1 + 2 ELSE s1
        s3 == IF Get(lead, "email", None) \notin {None, ""} THEN s2 + 2 ELSE s2
        s4 == s3 + (Len(Get(lead, "repos_starred", <<>>)) - 1) * 3
        followers == Get(lead, "followers", 0)
    IN  IF followers >= 100 THEN s4 + 2
        ELSE IF followers >= 10 THEN s4 + 1
        ELSE s4

\* Lines 252-275: the score of one merged lead.  (followers is an integer in
\* every profile the API returns; a null would raise at line 272.)
score_of(lead) ==
    LET s1 == IF Get(lead, "company_clean", <<>>) # <<>> THEN 3 ELSE 0
        s2 == IF Get(lead, "org_count", 0) > 0 THEN s1 + 2 ELSE s1
        s3 == IF Get(lead, "email", None) \notin {None, ""} THEN s2 + 2 ELSE s2
        s4 == s3 + (Len(Get(lead, "repos_starred", <<>>)) - 1) * 3
        followers == Get(lead, "followers", 0)
    IN  IF followers > 100 THEN s4 + 2
        ELSE IF followers > 10 THEN s4 + 1
        ELSE s4

\* Lines 250-278: every lead of by_username with its score, in dict order.
add_scores(by_username) ==
    [k \in 1..Len(by_username) |->
        Merge(by_username[k], [score |-> score_of(by_username[k])])]

\* An insertion that puts the lead before the leads of equal score.
RECURSIVE insert_before_equal(_, _)
insert_before_equal(sorted, lead) ==
    IF sorted = <<>> THEN <<lead>>
    ELSE IF Head(sorted).score > lead.score
         THEN <<Head(sorted)>> \o insert_before_equal(Tail(sorted), lead)
         ELSE <<lead>> \o sorted

\* list.sort(key=score, reverse=True) is stable: a lead goes after every lead
\* of greater or equal score that precedes it.
RECURSIVE insert_by_score(_, _)
insert_by_score(sorted, lead) ==
    IF sorted = <<>> THEN <<lead>>
    ELSE IF Head(sorted).score >= lead.score
         THEN <<Head(sorted)>> \o insert_by_score(Tail(sorted), lead)
         ELSE <<lead>> \o sorted

\* Line 281.
RECURSIVE sort_by_score(_, _)
sort_by_score(scored, sorted) ==
    IF scored = <<>> THEN sorted
    ELSE sort_by_score(Tail(scored), insert_by_score(sorted, Head(scored)))

dedupe_and_score(input) ==
    sort_by_score(add_scores(dedupe(input, <<>>)), <<>>)

(***************************************************************************)
(* enrich_stargazers, lines 216-224: the enriched record of one star.      *)
(***************************************************************************)
EnrichedLead(star, dets, orgs) ==
    Merge(Merge(star, dets),
          [company_clean |-> clean_company_name(Get(dets, "company", <<>>)),
           orgs |-> orgs,
           org_count |-> Len(orgs)])

(***************************************************************************)
(* The process's network and sleep events; io keeps the last two.          *)
(***************************************************************************)
NoEvent == [op |-> "none", url |-> "", ms |-> 0]
GetEvent(url) == [op |-> "GET", url |-> url, ms |-> 0]
PostEvent == [op |-> "POST", url |-> "clay", ms |-> 0]
SleepEvent(ms) == [op |-> "sleep", url |-> "", ms |-> ms]
Push(e) == <<io[2], e>>

(***************************************************************************)
(* The environment: what the API may answer.                               *)
(***************************************************************************)
NoResponse == [status |-> 0]

\* A non-200 status costs one unit of err_budget.
Statuses == {200} \cup (IF err_budget > 0 THEN {403, 500} ELSE {})
Spend(status) == IF status = 200 THEN err_budget ELSE err_budget - 1

\* The Link header of the discovery response: no rel="last", or the page it names.
Links == {[rel_last |-> FALSE, page |-> 0]}
         \cup {[rel_last |-> TRUE, page |-> n] : n \in 1..MaxLastPage}

\* One element of a stargazers page: the user object itself ("simple"), the
\* user under "user" beside starred_at ("wrapped"), a dict with no login, or
\* something that is no dict.
Items == {[kind |-> k, login |-> u] : k \in {"simple", "wrapped"}, u \in Usernames}
         \cup {[kind |-> "nologin", login |-> 0], [kind |-> "nondict", login |-> 0]}

RECURSIVE SeqsUpTo(_, _)
SeqsUpTo(S, n) ==
    IF n = 0 THEN {<<>>}
    ELSE LET shorter == SeqsUpTo(S, n - 1)
         IN  shorter \cup {Append(q, x) : q \in {r \in shorter : Len(r) = n - 1}, x \in S}

Min(a, b) == IF a <= b THEN a ELSE b
Max(a, b) == IF a >= b THEN a ELSE b

\* A full page: per_page users, each its own login.
FullPage(p) == [k \in 1..per_page |-> [kind |-> "simple", login |-> p * per_page + k]]

\* The bodies page p may have: the full one while the budget holds per_page
\* entries, and the short ones, which share what the budget holds beyond whole
\* pages.
Bodies(p) ==
    SeqsUpTo(Items, Min(MaxPageLen, star_budget % per_page))
    \cup (IF star_budget >= per_page THEN {FullPage(p)} ELSE {})

\* The profiles /users/<login> may return (the keys the code reads).
Acme == <<"A", "c", "m", "e">>
AtAcmeInc == <<"@">> \o Acme \o SUFFIXES[1]
Profiles ==
    {[company |-> AtAcmeInc, email |-> "dev@acme.io", followers |-> 150],
     [company |-> NoneStr, email |-> None, followers |-> 5]}

OrgLists == {<<>>, <<"acme">>}

(***************************************************************************)
(* fetch_stargazers (lines 52-138).                                        *)
(***************************************************************************)
\* Line 87 without the cap of 5 pages.
pages_to_fetch_uncapped(n, last) == Min(n \div per_page + 1, last)

\* Line 87.
pages_to_fetch(n, last) == Min(Min(n \div per_page + 1, last), PAGE_CAP)

\* Line 88.
start_page(n, last) == Max(1, last - pages_to_fetch(n, last) + 1)

\* Lines 114-131: the entries of one page's data.
HasLogin(user) == user.kind \in {"simple", "wrapped"} /\ user.login # 0

parse_page(data, r) ==
    LET users == SelectSeq(data, HasLogin)
    IN  [k \in 1..Len(users) |-> [username |-> users[k].login, repo |-> r]]

\* Line 136: stargazers[-max_stargazers:], Python's slice with a negative start.
\* -0 is 0, so the slice from -0 is the whole list.
last_n(list, n) ==
    IF n = 0 THEN list
    ELSE SubSeq(list, Max(1, Len(list) - n + 1), Len(list))

\* Line 136.
recent_of(list, n) == IF Len(list) > n THEN last_n(list, n) ELSE list

fsVars == <<stargazers, last_page, page, pages_requested, recent>>
mainVars == <<repo_idx, all_stargazers, webhook_url>>
enrichVars == <<i, details, enriched, profile_gets, orgs_gets>>
sinkVars == <<leads, snapshot, posts>>
pureVars == <<arg, ret>>

\* Line 67: the one-item request of page 1.
FsDiscover ==
    /\ pc = "fs_start"
    /\ \E status \in Statuses, link \in Links :
          /\ response' = [status |-> status, link |-> link]
          /\ err_budget' = Spend(status)
    /\ stargazers' = <<>>
    /\ pages_requested' = <<>>
    /\ io' = Push(GetEvent("stargazers"))
    /\ pc' = "fs_discovered"
    /\ UNCHANGED <<last_page, page, recent, repo, max_stargazers, star_budget,
                   mainVars, enrichVars, sinkVars, pureVars>>

\* Lines 69-71: any non-200 status of the discovery request returns [].
FsDiscoverFailed ==
    /\ pc = "fs_discovered"
    /\ response.status # 200
    /\ recent' = <<>>
    /\ response' = NoResponse
    /\ pc' = "fs_return"
    /\ UNCHANGED <<stargazers, last_page, page, pages_requested, repo,
                   max_stargazers, io, err_budget, star_budget,
                   mainVars, enrichVars, sinkVars, pureVars>>

\* Lines 73-92: last_page from the Link header, and the first page of the loop.
\* response holds the discovery response until line 93 overwrites it.
FsPlan ==
    /\ pc = "fs_discovered"
    /\ response.status = 200
    /\ LET last == IF response.link.rel_last THEN response.link.page ELSE 1
       IN  /\ last_page' = last
           /\ page' = start_page(max_stargazers, last)
    /\ pc' = "fs_loop"
    /\ UNCHANGED <<stargazers, pages_requested, recent, repo, max_stargazers,
                   response, io, err_budget, star_budget,
                   mainVars, enrichVars, sinkVars, pureVars>>

\* A page request and its response (lines 93-97, and 102-106 for the retry).
PageResponse ==
    \E status \in Statuses :
       /\ err_budget' = Spend(status)
       /\ \E body \in (IF status = 200 THEN Bodies(page) ELSE {<<>>}) :
             /\ response' = [status |-> status, page |-> page, body |-> body]
             /\ star_budget' = star_budget - Len(body)

\* Lines 92-97: the loop goes on, and requests the page.
FsRequestPage ==
    /\ pc = "fs_loop"
    /\ page <= last_page
    /\ PageResponse
    /\ pages_requested' = Append(pages_requested, page)
    /\ io' = Push(GetEvent("stargazers"))
    /\ pc' = "fs_page_resp"
    /\ UNCHANGED <<stargazers, last_page, page, recent, repo, max_stargazers,
                   mainVars, enrichVars, sinkVars, pureVars>>

\* Lines 99-101: rate limited, sleep 60 seconds.
FsCooldown ==
    /\ pc = "fs_page_resp"
    /\ response.status = 403
    /\ io' = Push(SleepEvent(COOLDOWN))
    /\ response' = NoResponse
    /\ pc' = "fs_retry"
    /\ UNCHANGED <<fsVars, repo, max_stargazers, err_budget, star_budget,
                   mainVars, enrichVars, sinkVars, pureVars>>

\* Lines 102-106: the same page again.
FsRetryPage ==
    /\ pc = "fs_retry"
    /\ PageResponse
    /\ io' = Push(GetEvent("stargazers"))
    /\ pc' = "fs_page_check"
    /\ UNCHANGED <<fsVars, repo, max_stargazers,
                   mainVars, enrichVars, sinkVars, pureVars>>

\* The response line 108 tests: the first one unless it was a 403, else the retry's.
AtPageCheck ==
    \/ pc = "fs_page_resp" /\ response.status # 403
    \/ pc = "fs_page_check"

\* Lines 108-110: a non-200 page is skipped; continue goes to the next page.
FsPageFailed ==
    /\ AtPageCheck
    /\ response.status # 200
    /\ page' = page + 1
    /\ response' = NoResponse
    /\ pc' = "fs_loop"
    /\ UNCHANGED <<stargazers, last_page, pages_requested, recent, repo,
                   max_stargazers, io, err_budget, star_budget,
                   mainVars, enrichVars, sinkVars, pureVars>>

\* Lines 112-133: the page's entries are appended, then the delay.
FsPageOk ==
    /\ AtPageCheck
    /\ response.status = 200
    /\ stargazers' = stargazers \o parse_page(response.body, repo)
    /\ io' = Push(SleepEvent(REQUEST_DELAY))
    /\ page' = page + 1
    /\ response' = NoResponse
    /\ pc' = "fs_loop"
    /\ UNCHANGED <<last_page, pages_requested, recent, repo, max_stargazers,
                   err_budget, star_budget,
                   mainVars, enrichVars, sinkVars, pureVars>>

\* Lines 135-138: after the last page, the most recent entries are returned.
FsReturn ==
    /\ pc = "fs_loop"
    /\ page > last_page
    /\ recent' = recent_of(stargazers, max_stargazers)
    /\ pc' = "fs_return"
    /\ UNCHANGED <<stargazers, last_page, page, pages_requested, repo,
                   max_stargazers, response, io, err_budget, star_budget,
                   mainVars, enrichVars, sinkVars, pureVars>>

(***************************************************************************)
(* main (lines 321-373), with enrich_stargazers, fetch_user_details,       *)
(* fetch_user_orgs, save_local and send_to_clay.                           *)
(***************************************************************************)
\* Lines 340-341: the next repository's fetch_stargazers call.
MainCallFetch ==
    /\ pc = "main_loop"
    /\ repo_idx <= Len(REPOS)
    /\ repo' = REPOS[repo_idx]
    /\ max_stargazers' = max_per_repo
    /\ pc' = "fs_start"
    /\ UNCHANGED <<fsVars, response, io, err_budget, star_budget,
                   mainVars, enrichVars, sinkVars, pureVars>>

\* fetch_stargazers has returned: its arguments and locals are gone.
FsLocalsGone ==
    /\ repo' = ""
    /\ max_stargazers' = 0
    /\ stargazers' = <<>>
    /\ last_page' = 1
    /\ page' = 1
    /\ pages_requested' = <<>>
    /\ recent' = <<>>

\* Lines 342-343: the call's result is appended, then the delay.
MainCollect ==
    /\ pc = "fs_return"
    /\ all_stargazers' = all_stargazers \o recent
    /\ io' = Push(SleepEvent(REQUEST_DELAY))
    /\ repo_idx' = repo_idx + 1
    /\ FsLocalsGone
    /\ pc' = "main_loop"
    /\ UNCHANGED <<response, webhook_url, err_budget, star_budget,
                   enrichVars, sinkVars, pureVars>>

\* Lines 347-349: nothing collected, main returns.
MainNoStargazers ==
    /\ pc = "main_loop"
    /\ repo_idx > Len(REPOS)
    /\ all_stargazers = <<>>
    /\ pc' = "done"
    /\ UNCHANGED <<fsVars, repo, max_stargazers, response, io, err_budget,
                   star_budget, mainVars, enrichVars, sinkVars, pureVars>>

\* enrich_stargazers with its loop starting at the second star.
MainEnrichFromSecond ==
    /\ pc = "main_loop"
    /\ repo_idx > Len(REPOS)
    /\ all_stargazers # <<>>
    /\ enriched' = <<>>
    /\ i' = 2
    /\ pc' = "en_loop"
    /\ UNCHANGED <<fsVars, repo, max_stargazers, response, io, err_budget,
                   star_budget, mainVars, details, profile_gets, orgs_gets,
                   sinkVars, pureVars>>

\* Lines 352, 199-204: enrich_stargazers is entered.
MainEnrich ==
    /\ pc = "main_loop"
    /\ repo_idx > Len(REPOS)
    /\ all_stargazers # <<>>
    /\ enriched' = <<>>
    /\ i' = 1
    /\ pc' = "en_loop"
    /\ UNCHANGED <<fsVars, repo, max_stargazers, response, io, err_budget,
                   star_budget, mainVars, details, profile_gets, orgs_gets,
                   sinkVars, pureVars>>

ProfileResponse ==
    \E status \in Statuses :
       /\ err_budget' = Spend(status)
       /\ \E data \in (IF status = 200 THEN Profiles ELSE {EmptyDict}) :
             response' = [status |-> status, data |-> data]

\* Lines 204-209, 143-144: the profile request of the i-th star.
UdRequest ==
    /\ pc = "en_loop"
    /\ i <= Len(all_stargazers)
    /\ ProfileResponse
    /\ profile_gets' = [profile_gets EXCEPT ![all_stargazers[i].username] = @ + 1]
    /\ io' = Push(GetEvent("user"))
    /\ pc' = "ud_resp"
    /\ UNCHANGED <<fsVars, repo, max_stargazers, star_budget, mainVars,
                   i, details, enriched, orgs_gets, sinkVars, pureVars>>

\* Lines 146-148: rate limited, sleep 60 seconds.
UdCooldown ==
    /\ pc = "ud_resp"
    /\ response.status = 403
    /\ io' = Push(SleepEvent(COOLDOWN))
    /\ response' = NoResponse
    /\ pc' = "ud_retry"
    /\ UNCHANGED <<fsVars, repo, max_stargazers, err_budget, star_budget,
                   mainVars, enrichVars, sinkVars, pureVars>>

\* Line 149: the same request again.
UdRetry ==
    /\ pc = "ud_retry"
    /\ ProfileResponse
    /\ io' = Push(GetEvent("user"))
    /\ pc' = "ud_check"
    /\ UNCHANGED <<fsVars, repo, max_stargazers, star_budget, mainVars,
                   enrichVars, sinkVars, pureVars>>

\* Lines 151-165, 210: fetch_user_details returns, then the delay.
UdReturn ==
    /\ \/ pc = "ud_resp" /\ response.status # 403
       \/ pc = "ud_check"
    /\ details' = IF response.status # 200 THEN EmptyDict ELSE response.data
    /\ io' = Push(SleepEvent(REQUEST_DELAY))
    /\ response' = NoResponse
    /\ pc' = "en_orgs"
    /\ UNCHANGED <<fsVars, repo, max_stargazers, err_budget, star_budget,
                   mainVars, i, enriched, profile_gets, orgs_gets,
                   sinkVars, pureVars>>

\* Lines 213, 170-171: the organizations request.
UoRequest ==
    /\ pc = "en_orgs"
    /\ \E status \in Statuses :
          /\ err_budget' = Spend(status)
          /\ \E orgs \in (IF status = 200 THEN OrgLists ELSE {<<>>}) :
                response' = [status |-> status, orgs |-> orgs]
    /\ orgs_gets' = [orgs_gets EXCEPT ![all_stargazers[i].username] = @ + 1]
    /\ io' = Push(GetEvent("orgs"))
    /\ pc' = "uo_resp"
    /\ UNCHANGED <<fsVars, repo, max_stargazers, star_budget, mainVars,
                   i, details, enriched, profile_gets, sinkVars, pureVars>>

\* Lines 173-176, 214-224: fetch_user_orgs returns ([] on any non-200 status),
\* then the delay, and the enriched record is appended.
UoReturn ==
    /\ pc = "uo_resp"
    /\ LET orgs == IF response.status # 200 THEN <<>> ELSE response.orgs
       IN  enriched' = Append(enriched, EnrichedLead(all_stargazers[i], details, orgs))
    /\ io' = Push(SleepEvent(REQUEST_DELAY))
    /\ i' = i + 1
    /\ details' = EmptyDict
    /\ response' = NoResponse
    /\ pc' = "en_loop"
    /\ UNCHANGED <<fsVars, repo, max_stargazers, err_budget, star_budget,
                   mainVars, profile_gets, orgs_gets, sinkVars, pureVars>>

\* main with save_local called only when a webhook URL is set.
MainSaveIfWebhook ==
    /\ pc = "en_loop"
    /\ i > Len(all_stargazers)
    /\ leads' = dedupe_and_score(enriched)
    /\ snapshot' = IF webhook_url THEN File(leads') ELSE snapshot
    /\ pc' = "saved"
    /\ UNCHANGED <<fsVars, repo, max_stargazers, response, io, err_budget,
                   star_budget, mainVars, enrichVars, posts, pureVars>>

\* Lines 228, 355-367, 312-318: enrich_stargazers returns, the leads are
\* deduplicated and scored, and save_local writes them to leads.json.
MainSave ==
    /\ pc = "en_loop"
    /\ i > Len(all_stargazers)
    /\ leads' = dedupe_and_score(enriched)
    /\ snapshot' = File(leads')
    /\ pc' = "saved"
    /\ UNCHANGED <<fsVars, repo, max_stargazers, response, io, err_budget,
                   star_budget, mainVars, enrichVars, posts, pureVars>>

\* Lines 370, 288-290, 372-373: no webhook URL, send_to_clay returns False.
SendSkip ==
    /\ pc = "saved"
    /\ ~webhook_url
    /\ pc' = "done"
    /\ UNCHANGED <<fsVars, repo, max_stargazers, response, io, err_budget,
                   star_budget, mainVars, enrichVars, sinkVars, pureVars>>

WebhookStatuses == {200, 201, 202, 500}

\* Lines 296-302: the POST of the batch.
SendPost ==
    /\ pc = "saved"
    /\ webhook_url
    /\ posts' = Append(posts, [leads |-> leads])
    /\ \E status \in WebhookStatuses : response' = [status |-> status]
    /\ io' = Push(PostEvent)
    /\ pc' = "send_resp"
    /\ UNCHANGED <<fsVars, repo, max_stargazers, err_budget, star_budget,
                   mainVars, enrichVars, leads, snapshot, pureVars>>

\* Lines 304-309, 372-373: success (200, 201, 202) or failure is printed, main
\* drops send_to_clay's result and returns.
SendResult ==
    /\ pc = "send_resp"
    /\ pc' = "done"
    /\ UNCHANGED <<fsVars, repo, max_stargazers, response, io, err_budget,
                   star_budget, mainVars, enrichVars, sinkVars, pureVars>>

\* requests raises (no connection, a timeout): nothing catches it, the process ends.
AtRequest ==
    \/ pc \in {"fs_start", "fs_retry", "ud_retry", "en_orgs"}
    \/ pc = "fs_loop" /\ page <= last_page
    \/ pc = "en_loop" /\ i <= Len(all_stargazers)
    \/ pc = "saved" /\ webhook_url

TransportFailure ==
    /\ AtRequest
    /\ pc' = "crashed"
    /\ UNCHANGED <<fsVars, repo, max_stargazers, response, io, err_budget,
                   star_budget, mainVars, enrichVars, sinkVars, pureVars>>

(***************************************************************************)
(* Specifications.                                                         *)
(***************************************************************************)
\* The state before any call.
Blank ==
    /\ ret = <<>>
    /\ repo_idx = 1
    /\ all_stargazers = <<>>
    /\ stargazers = <<>>
    /\ last_page = 1
    /\ page = 1
    /\ pages_requested = <<>>
    /\ recent = <<>>
    /\ response = NoResponse
    /\ i = 1
    /\ details = EmptyDict
    /\ enriched = <<>>
    /\ leads = <<>>
    /\ snapshot = NoFile
    /\ posts = <<>>
    /\ io = <<NoEvent, NoEvent>>
    /\ profile_gets = [u \in Usernames |-> 0]
    /\ orgs_gets = [u \in Usernames |-> 0]

FsNext ==
    \/ FsDiscover \/ FsDiscoverFailed \/ FsPlan \/ FsRequestPage \/ FsCooldown
    \/ FsRetryPage \/ FsPageFailed \/ FsPageOk \/ FsReturn

\* One run of main, with or without a webhook URL in the environment.
Init ==
    /\ Blank
    /\ pc = "main_loop"
    /\ arg = <<>>
    /\ repo = ""
    /\ max_stargazers = 0
    /\ webhook_url \in BOOLEAN
    /\ err_budget = MaxErrors
    /\ star_budget = MaxStars

Next ==
    \/ MainCallFetch \/ FsNext \/ MainCollect \/ MainNoStargazers \/ MainEnrich
    \/ UdRequest \/ UdCooldown \/ UdRetry \/ UdReturn \/ UoRequest \/ UoReturn
    \/ MainSave \/ SendSkip \/ SendPost \/ SendResult \/ TransportFailure

Spec == Init /\ [][Next]_vars

\* One call fetch_stargazers(repo, max_stargazers), for any max_stargazers of
\* MaxStargazersChoices.
MaxStargazersChoices == {0, 1, 100, 200, 400, 500}

InitFetch ==
    /\ Blank
    /\ pc = "fs_start"
    /\ arg = <<>>
    /\ repo = REPOS[1]
    /\ max_stargazers \in MaxStargazersChoices
    /\ webhook_url = FALSE
    /\ err_budget = MaxErrors
    /\ star_budget = MaxFullPages * per_page + MaxStars

NextFetch == FsNext \/ TransportFailure

SpecFetch == InitFetch /\ [][NextFetch]_vars

\* One call clean_company_name(company): the company is a base name between
\* optional blanks, after up to two "@", before up to MaxSuffixes listed
\* suffixes; or it is None or "".
Concat(sufs) ==
    LET RECURSIVE cat(_)
        cat(q) == IF q = <<>> THEN <<>> ELSE SUFFIXES[Head(q)] \o cat(Tail(q))
    IN  cat(sufs)

CompanyInputs ==
    {[company |-> lead \o ats \o base \o Concat(sufs) \o trail,
      lead |-> lead, ats |-> ats, base |-> base, sufs |-> sufs, trail |-> trail] :
        lead \in {<<>>, <<" ">>},
        ats \in {<<>>, <<"@">>, <<"@", "@">>},
        base \in {Acme, <<>>},
        sufs \in SeqsUpTo(1..Len(SUFFIXES), MaxSuffixes),
        trail \in {<<>>, <<" ">>}}
    \cup {[company |-> NoneStr, lead |-> <<>>, ats |-> <<>>, base |-> <<>>,
           sufs |-> <<>>, trail |-> <<>>]}

InitClean ==
    /\ Blank
    /\ pc = "clean_call"
    /\ arg \in CompanyInputs
    /\ repo = ""
    /\ max_stargazers = 0
    /\ webhook_url = FALSE
    /\ err_budget = 0
    /\ star_budget = 0

CleanCompanyName ==
    /\ pc = "clean_call"
    /\ ret' = clean_company_name(arg.company)
    /\ pc' = "clean_done"
    /\ UNCHANGED <<fsVars, repo, max_stargazers, response, io, err_budget,
                   star_budget, mainVars, enrichVars, sinkVars, arg>>

NextClean == CleanCompanyName

SpecClean == InitClean /\ [][NextClean]_vars

\* One call dedupe_and_score(leads): leads is any sequence of up to MaxLeads
\* records as enrich_stargazers builds them.
DedupeUsers == {1, 2}
DedupeRepos == {REPOS[1], REPOS[2]}
DedupeProfiles ==
    {[dets |-> EmptyDict, orgs |-> <<>>],
     [dets |-> EmptyDict, orgs |-> <<"acme">>],
     [dets |-> [company |-> AtAcmeInc, email |-> "dev@acme.io", followers |-> 150],
      orgs |-> <<"acme">>],
     [dets |-> [company |-> NoneStr, email |-> None, followers |-> 11],
      orgs |-> <<>>],
     [dets |-> [company |-> Acme, email |-> None, followers |-> 100],
      orgs |-> <<>>],
     [dets |-> [company |-> <<"@">>, email |-> "x@y.z", followers |-> 101],
      orgs |-> <<>>],
     [dets |-> [company |-> NoneStr, email |-> None, followers |-> 10],
      orgs |-> <<"acme", "globex">>]}

DedupeEvents ==
    {EnrichedLead([username |-> u, repo |-> r], p.dets, p.orgs) :
        u \in DedupeUsers, r \in DedupeRepos, p \in DedupeProfiles}

InitDedupe ==
    /\ Blank
    /\ pc = "dedupe_call"
    /\ arg \in SeqsUpTo(DedupeEvents, MaxLeads)
    /\ repo = ""
    /\ max_stargazers = 0
    /\ webhook_url = FALSE
    /\ err_budget = 0
    /\ star_budget = 0

DedupeAndScore ==
    /\ pc = "dedupe_call"
    /\ ret' = dedupe_and_score(arg)
    /\ pc' = "dedupe_done"
    /\ UNCHANGED <<fsVars, repo, max_stargazers, response, io, err_budget,
                   star_budget, mainVars, enrichVars, sinkVars, arg>>

NextDedupe == DedupeAndScore

SpecDedupe == InitDedupe /\ [][NextDedupe]_vars

(***************************************************************************)
(* Properties.                                                             *)
(***************************************************************************)
B(cond) == IF cond THEN 1 ELSE 0

\* The elements of seq without repetition, in order of first appearance.
FirstIndex(seq, x) == CHOOSE k \in 1..Len(seq) : seq[k] = x /\ \A j \in 1..(k - 1) : seq[j] # x
IsFirst(seq, k) == \A j \in 1..(k - 1) : seq[j] # seq[k]
Positions(seq) == {k \in 1..Len(seq) : IsFirst(seq, k)}
DistinctInOrder(seq) ==
    [n \in 1..Cardinality(Positions(seq)) |->
        seq[CHOOSE k \in Positions(seq) :
                Cardinality({j \in Positions(seq) : j <= k}) = n]]

UsernamesOf(seq) == {seq[k].username : k \in 1..Len(seq)}
NamesSeq(seq) == [k \in 1..Len(seq) |-> seq[k].username]
ReposOfUser(seq, u) ==
    LET events == SelectSeq(seq, LAMBDA e : e.username = u)
    IN  [k \in 1..Len(events) |-> events[k].repo]

\* C1: dedupe_and_score returns exactly one lead per distinct username of its
\* input, and the lead's repos_starred is the list of the distinct repositories
\* of that username's events, without duplicates, in order of first appearance.
C1_OneLeadPerUsername ==
    pc = "dedupe_done" =>
        /\ UsernamesOf(ret) = UsernamesOf(arg)
        /\ Len(ret) = Cardinality(UsernamesOf(arg))
        /\ \A k \in 1..Len(ret) :
              ret[k].repos_starred = DistinctInOrder(ReposOfUser(arg, ret[k].username))

\* A username with three star events over two repositories, merged into one lead.
C1_Witness ==
    /\ pc = "dedupe_done"
    /\ Len(arg) = 3
    /\ Len(ret) = 1
    /\ ret[1].repos_starred = <<REPOS[2], REPOS[1]>>

FollowerPoints(lead) ==
    IF "followers" \notin DOMAIN lead THEN 0
    ELSE IF lead.followers > 100 THEN 2
    ELSE IF lead.followers > 10 THEN 1
    ELSE 0

EmailPresent(lead) == "email" \in DOMAIN lead /\ lead.email # None
NoProfile(lead) == DOMAIN lead \cap {"followers", "company", "email"} = {}
NumRepos(lead) == Cardinality({lead.repos_starred[k] : k \in 1..Len(lead.repos_starred)})

\* C5: the score of every merged lead is 3*[cleaned company non-empty]
\* + 2*[org_count > 0] + 2*[email present] + 3*(distinct repos starred - 1)
\* + (2 if followers > 100, else 1 if followers > 10, else 0), the repositories
\* being those of all the username's events; a lead with an empty profile
\* scores 3*(repos - 1) + 2*[org_count > 0]; company, one org, email, two
\* repos and 150 followers give 12.
C5_ScoreFormula ==
    pc = "dedupe_done" =>
        \A k \in 1..Len(ret) :
            LET lead == ret[k]
                events == ReposOfUser(arg, lead.username)
            IN  /\ NumRepos(lead) = Cardinality({events[j] : j \in 1..Len(events)})
                /\ lead.score = 3 * B(lead.company_clean # <<>>)
                                + 2 * B(lead.org_count > 0)
                                + 2 * B(EmailPresent(lead))
                                + 3 * (NumRepos(lead) - 1)
                                + FollowerPoints(lead)
                /\ NoProfile(lead) =>
                      lead.score = 3 * (NumRepos(lead) - 1) + 2 * B(lead.org_count > 0)
                /\ ( /\ lead.company_clean # <<>>
                     /\ lead.org_count = 1
                     /\ EmailPresent(lead)
                     /\ NumRepos(lead) = 2
                     /\ ~NoProfile(lead)
                     /\ lead.followers = 150 ) => lead.score = 12

\* The example's lead, and a lead at the threshold of 100 followers.
C5_Witness ==
    /\ pc = "dedupe_done"
    /\ Len(ret) = 2
    /\ ret[1].score = 12
    /\ ret[1].followers = 150
    /\ Len(ret[1].repos_starred) = 2
    /\ ~NoProfile(ret[2])
    /\ ret[2].followers = 100

\* C6: the returned list is non-increasing by score, and two leads of equal
\* score are in the order in which their usernames first appeared in the input.
C6_SortedStable ==
    pc = "dedupe_done" =>
        \A a, b \in 1..Len(ret) :
            a < b =>
               /\ ret[a].score >= ret[b].score
               /\ ret[a].score = ret[b].score =>
                     FirstIndex(NamesSeq(arg), ret[a].username)
                        < FirstIndex(NamesSeq(arg), ret[b].username)

\* Two leads of equal, positive score out of three star events.
C6_Witness ==
    /\ pc = "dedupe_done"
    /\ Len(arg) = 3
    /\ Len(ret) = 2
    /\ ret[1].score = ret[2].score
    /\ ret[1].score > 0

\* The suffixes of indices removed, as they stood at the end of the name:
\* the last one removed is the innermost.
RECURSIVE RemovedTail(_)
RemovedTail(removed) ==
    IF removed = <<>> THEN <<>>
    ELSE RemovedTail(Tail(removed)) \o SUFFIXES[Head(removed)]

Plain(input) == input.lead = <<>> /\ input.trail = <<>>

\* C4 as stated: one call removes at most one trailing suffix, the scan
\* stopping at the first suffix that matches, so that "Acme LLC, Inc." loses
\* only ", Inc.".
C4_StopsAtFirstMatch ==
    pc = "clean_done" =>
        /\ Len(removed_suffixes(arg.company)) <= 1
        /\ arg.company = Acme \o SUFFIXES[5] \o SUFFIXES[1] => ret = Acme \o SUFFIXES[5]

\* C4 as amended: one leading "@" is stripped, then the suffix list is scanned
\* once, in order, to its end: each suffix the name ends with at its turn is
\* removed, so the suffixes removed have increasing places in the list and
\* stood at the end of the name, the last removed innermost.  A name ending in
\* two listed suffixes loses both when the last one is listed before the other
\* ("Acme LLC, Inc." yields "Acme"), and "Acme, Inc. LLC" yields "Acme, Inc.";
\* "@Acme, Inc." yields "Acme"; None and "" yield "".
C4_ScansWholeList ==
    pc = "clean_done" =>
        LET removed == removed_suffixes(arg.company)
            name == StripPrefix(arg.company)
            tail == RemovedTail(removed)
        IN  /\ arg.company \in {NoneStr, <<>>} => ret = <<>>
            /\ \A k \in 1..(Len(removed) - 1) : removed[k] < removed[k + 1]
            /\ arg.company \notin {NoneStr, <<>>} =>
                  /\ endswith(name, tail)
                  /\ ret = strip(DropLast(name, Len(tail)))
            /\ (Len(arg.ats) = 2 /\ arg.company # NoneStr) => startswith(ret, <<"@">>)
            /\ ( /\ Plain(arg)
                 /\ Len(arg.ats) <= 1
                 /\ arg.base = Acme
                 /\ Len(arg.sufs) = 2
                 /\ arg.sufs[2] < arg.sufs[1] ) => ret = Acme
            /\ arg.company = Acme \o SUFFIXES[5] \o SUFFIXES[1] => ret = Acme
            /\ arg.company = Acme \o SUFFIXES[1] \o SUFFIXES[5] => ret = Acme \o SUFFIXES[1]
            /\ arg.company = AtAcmeInc => ret = Acme

\* "Acme LLC, Inc." cleaned to "Acme": two suffixes removed by one call.
C4_Witness ==
    /\ pc = "clean_done"
    /\ arg.company = Acme \o SUFFIXES[5] \o SUFFIXES[1]
    /\ removed_suffixes(arg.company) = <<1, 5>>
    /\ ret = Acme

Range(a, b) == [n \in 1..(b - a + 1) |-> a + n - 1]

\* The first page to request, by the claim: last_page - k + 1 for
\* k = min(N // 100 + 1, last_page, 5).
FirstPage == last_page - Min(Min(max_stargazers \div 100 + 1, last_page), 5) + 1

\* C7: after a successful discovery, fetch_stargazers requests exactly the
\* pages last_page - k + 1 .. last_page, in ascending order, a retry asking
\* for the page in hand again: never a page below 1 or above last_page, never
\* more than 5 pages; with no "last" link last_page is 1 and page 1 alone is
\* requested; last_page = 3 and N = 500 fetch pages 1 to 3.
C7_TrailingPages ==
    /\ pc = "fs_loop" =>
          /\ last_page >= 1
          /\ FirstPage >= 1
          /\ page <= last_page + 1
          /\ pages_requested = Range(FirstPage, page - 1)
          /\ (pages_requested = <<>> /\ ~response.link.rel_last) => last_page = 1
    /\ pc \in {"fs_page_resp", "fs_retry", "fs_page_check"} =>
          /\ page <= last_page
          /\ pages_requested = Range(FirstPage, page)
          /\ pc # "fs_retry" => response.page = page
    /\ (pc = "fs_return" /\ pages_requested # <<>>) =>
          /\ pages_requested = Range(FirstPage, last_page)
          /\ Len(pages_requested) <= 5
          /\ last_page = 1 => pages_requested = <<1>>
          /\ (last_page = 3 /\ max_stargazers = 500) => pages_requested = <<1, 2, 3>>

\* The cap at work: 500 requested, six pages there, the last five fetched.
C7_Witness ==
    /\ pc = "fs_return"
    /\ max_stargazers = 500
    /\ last_page = 6
    /\ pages_requested = <<2, 3, 4, 5, 6>>

\* C8: fetch_stargazers returns the last N collected entries: at most N of
\* them, the final min(N, collected) entries in arrival order (none for N = 0).
C8_LastN ==
    pc = "fs_return" =>
        /\ Len(recent) <= max_stargazers
        /\ recent = SubSeq(stargazers,
                           Len(stargazers) - Min(max_stargazers, Len(stargazers)) + 1,
                           Len(stargazers))

\* C2 as stated: every run of main that completes has written the snapshot.
C2_EveryRunWritesSnapshot ==
    pc = "done" => snapshot.exists

\* C2 as amended: every run of main that collected at least one stargazer and
\* completes has written the snapshot with the full scored lead list, with or
\* without a webhook URL and whatever the webhook answers; the snapshot is
\* written before any POST, and the POST carries the same list.  A run that
\* collected no stargazer completes without writing or posting anything.
C2_SnapshotWhenLeads ==
    /\ (pc = "done" /\ all_stargazers # <<>>) =>
          /\ snapshot = File(leads)
          /\ UsernamesOf(leads) = UsernamesOf(all_stargazers)
          /\ Len(leads) = Cardinality(UsernamesOf(all_stargazers))
    /\ (pc = "done" /\ all_stargazers = <<>>) => (~snapshot.exists /\ posts = <<>>)
    /\ pc = "send_resp" => snapshot = File(leads)
    /\ posts # <<>> =>
          /\ snapshot.exists
          /\ posts = <<[leads |-> snapshot.content]>>
    /\ ~webhook_url => posts = <<>>

\* A completed run whose webhook answered 500: the snapshot is there.
C2_Witness ==
    /\ pc = "done"
    /\ webhook_url
    /\ response.status \notin {200, 201, 202}
    /\ posts # <<>>
    /\ snapshot = File(leads)
    /\ Len(leads) = 2

\* C3: a 403 answer to the first attempt of any API request (discovery, page,
\* profile, organizations) is followed by the 60-second sleep, and then by
\* one retry of the same request.
FirstAnswer == pc \in {"fs_discovered", "fs_page_resp", "ud_resp", "uo_resp"}
C3_RetryOn403 ==
    [][(FirstAnswer /\ response.status = 403) =>
          (io'[2] = SleepEvent(COOLDOWN) /\ pc' \in {"fs_retry", "ud_retry"})]_vars

\* Every repository lists a stargazer once: no two star events are the same.
OnePerUserAndRepo(events) ==
    \A a, b \in 1..Len(events) : events[a] = events[b] => a = b

C10_SleepBetweenRequests ==
    ~(io[1].op = "GET" /\ io[2].op = "GET")

CountUser(events, u) == Len(SelectSeq(events, LAMBDA e : e.username = u))

====
